---- MODULE Spec2Model ----
(***************************************************************************)
(* A model of the anthropic client crate: the error classifier             *)
(* (parse_error), the buffered call with its retry loop (Client::messages, *)
(* Client::post, Client::execute) and the streaming pipeline               *)
(* (Client::messages_stream, Client::post_stream, stream).                 *)
(*                                                                         *)
(* Bytes on the wire are sequences of lexical tokens; serde_json is a      *)
(* recursive-descent parser over them, and the derived Deserialize         *)
(* implementations of error.rs and types.rs are operators over the parsed  *)
(* JSON value.                                                             *)
(***************************************************************************)
EXTENDS Integers, Sequences, FiniteSets, TLC

(***************************************************************************)
(* Bytes and JSON                                                          *)
(***************************************************************************)

\* One lexical unit of a byte buffer.  t is the kind: "punct", "str",
\* "num", "null", "bool", "junk" (valid UTF-8 that is no JSON token) or
\* "bad" (a byte sequence that is not valid UTF-8).
Tok(t, v) == [t |-> t, v |-> v]

LBrace == Tok("punct", "{")
RBrace == Tok("punct", "}")
LBrack == Tok("punct", "[")
RBrack == Tok("punct", "]")
Colon == Tok("punct", ":")
Comma == Tok("punct", ",")
S(x) == Tok("str", x)
N(x) == Tok("num", x)
Null == Tok("null", "null")
Junk == Tok("junk", "Service Unavailable")
BadByte == Tok("bad", "0xFF")
ReplacementChar == Tok("char", "U+FFFD")

\* The number literals that fit an unsigned integer field (usize, u32).
UnsignedLits == {"0", "1", "2"}

\* String::from_utf8_lossy: valid text is kept, every invalid sequence
\* becomes U+FFFD.
FromUtf8Lossy(bytes) ==
    [i \in 1..Len(bytes) |-> IF bytes[i].t = "bad" THEN ReplacementChar ELSE bytes[i]]

\* JSON values.
JNull == [k |-> "null"]
JStr(s) == [k |-> "str", s |-> s]
JNum(n) == [k |-> "num", n |-> n]
JBool(b) == [k |-> "bool", b |-> b]
JObj(f) == [k |-> "obj", f |-> f]
JArr(e) == [k |-> "arr", e |-> e]

ParseFail == [ok |-> FALSE]
Parsed(v, next) == [ok |-> TRUE, v |-> v, next |-> next]

RECURSIVE ParseValue(_, _)
RECURSIVE ParseMembers(_, _, _)
RECURSIVE ParseElems(_, _, _)

\* One JSON value starting at token i: the value and the index after it.
ParseValue(toks, i) ==
    IF i > Len(toks) THEN ParseFail
    ELSE LET tk == toks[i] IN
         CASE tk.t = "str" -> Parsed(JStr(tk.v), i + 1)
           [] tk.t = "num" -> Parsed(JNum(tk.v), i + 1)
           [] tk.t = "bool" -> Parsed(JBool(tk.v), i + 1)
           [] tk.t = "null" -> Parsed(JNull, i + 1)
           [] tk = LBrace ->
                IF i + 1 <= Len(toks) /\ toks[i + 1] = RBrace
                THEN Parsed(JObj(<<>>), i + 2)
                ELSE ParseMembers(toks, i + 1, <<>>)
           [] tk = LBrack ->
                IF i + 1 <= Len(toks) /\ toks[i + 1] = RBrack
                THEN Parsed(JArr(<<>>), i + 2)
                ELSE ParseElems(toks, i + 1, <<>>)
           [] OTHER -> ParseFail

\* The members of an object from token i on, up to its closing brace.
ParseMembers(toks, i, acc) ==
    IF i + 1 > Len(toks) \/ toks[i].t # "str" \/ toks[i + 1] # Colon THEN ParseFail
    ELSE LET r == ParseValue(toks, i + 2) IN
         IF ~r.ok \/ r.next > Len(toks) THEN ParseFail
         ELSE LET acc2 == Append(acc, [key |-> toks[i].v, val |-> r.v]) IN
              IF toks[r.next] = RBrace THEN Parsed(JObj(acc2), r.next + 1)
              ELSE IF toks[r.next] = Comma THEN ParseMembers(toks, r.next + 1, acc2)
              ELSE ParseFail

\* The elements of an array from token i on, up to its closing bracket.
ParseElems(toks, i, acc) ==
    LET r == ParseValue(toks, i) IN
    IF ~r.ok \/ r.next > Len(toks) THEN ParseFail
    ELSE LET acc2 == Append(acc, r.v) IN
         IF toks[r.next] = RBrack THEN Parsed(JArr(acc2), r.next + 1)
         ELSE IF toks[r.next] = Comma THEN ParseElems(toks, r.next + 1, acc2)
         ELSE ParseFail

\* serde_json::from_slice / from_str up to the typed visitor: one value and
\* nothing after it.
ParseJson(toks) ==
    LET r == ParseValue(toks, 1) IN
    IF r.ok /\ r.next = Len(toks) + 1 THEN [ok |-> TRUE, v |-> r.v] ELSE ParseFail

(***************************************************************************)
(* Derived Deserialize implementations                                     *)
(***************************************************************************)

None == [some |-> FALSE]
Some(x) == [some |-> TRUE, v |-> x]
DeErr == [ok |-> FALSE]
DeOk(x) == [ok |-> TRUE, val |-> x]

\* The members of object v named name.
Members(v, name) == SelectSeq(v.f, LAMBDA m : m.key = name)

\* Field `name` (position pos) of a derived struct read from a map or from a
\* sequence: "one", "missing" (map without the key), "dup" (key repeated)
\* or "short" (sequence too short).
Field(v, name, pos) ==
    IF v.k = "obj"
    THEN LET ms == Members(v, name) IN
         IF Len(ms) = 0 THEN [st |-> "missing", v |-> JNull]
         ELSE IF Len(ms) = 1 THEN [st |-> "one", v |-> ms[1].val]
         ELSE [st |-> "dup", v |-> JNull]
    ELSE IF pos <= Len(v.e) THEN [st |-> "one", v |-> v.e[pos]]
    ELSE [st |-> "short", v |-> JNull]

\* A derived struct of n fields accepts a map, or a sequence of exactly n
\* elements.
IsStruct(v, n) == v.k = "obj" \/ (v.k = "arr" /\ Len(v.e) = n)

Required(f, kind) == f.st = "one" /\ f.v.k = kind
\* An Option<T> field: absent from a map, or null, is None.
OptionalOk(f) == f.st \in {"one", "missing"}
OptionOf(f) == IF f.st = "missing" \/ f.v.k = "null" THEN None ELSE Some(f.v)

\* error.rs: #[derive(Deserialize)] struct ApiError.
DeApiError(v) ==
    IF ~(v.k \in {"obj", "arr"}) THEN DeErr
    ELSE LET m == Field(v, "message", 1)
             t == Field(v, "type", 2)
             p == Field(v, "param", 3)
             c == Field(v, "code", 4)
         IN  IF IsStruct(v, 4) /\ Required(m, "str") /\ Required(t, "str")
                /\ OptionalOk(p) /\ OptionalOk(c)
             THEN DeOk([message |-> m.v.s, error_type |-> t.v.s,
                        param |-> OptionOf(p), code |-> OptionOf(c)])
             ELSE DeErr

\* error.rs: #[derive(Deserialize)] struct ErrorResponse.
DeErrorResponse(v) ==
    IF ~(v.k \in {"obj", "arr"}) THEN DeErr
    ELSE LET e == Field(v, "error", 1) IN
         IF IsStruct(v, 1) /\ e.st = "one"
         THEN LET a == DeApiError(e.v) IN
              IF a.ok THEN DeOk([error |-> a.val]) ELSE DeErr
         ELSE DeErr

\* serde_json::from_slice::<ErrorResponse>.
FromSliceErrorResponse(bytes) ==
    LET j == ParseJson(bytes) IN
    IF j.ok THEN DeErrorResponse(j.v) ELSE DeErr

(***************************************************************************)
(* error.rs: AnthropicError                                                *)
(***************************************************************************)

Http == [kind |-> "Http"]
Api(e) == [kind |-> "Api", error |-> e]
Deserialize == [kind |-> "Deserialize"]
InvalidRequest(msg) == [kind |-> "InvalidRequest", msg |-> msg]
UnexpectedResponse(status, body) ==
    [kind |-> "UnexpectedResponse", status |-> status, body |-> body]

(***************************************************************************)
(* client.rs: the error classifier                                         *)
(***************************************************************************)

\* parse_error without the envelope branch.
parse_error_ignores_envelope(status, bytes) ==
    UnexpectedResponse(status, FromUtf8Lossy(bytes))

\* parse_error with the body kept as raw bytes instead of lossy text.
parse_error_keeps_raw_bytes(status, bytes) ==
    LET r == FromSliceErrorResponse(bytes) IN
    IF r.ok THEN Api(r.val.error)
    ELSE UnexpectedResponse(status, bytes)

parse_error(status, bytes) ==
    LET r == FromSliceErrorResponse(bytes) IN
    IF r.ok THEN Api(r.val.error)
    ELSE UnexpectedResponse(status, FromUtf8Lossy(bytes))

(***************************************************************************)
(* Response bodies a server can send                                       *)
(***************************************************************************)

RECURSIVE RenderValue(_)
RECURSIVE RenderMembers(_, _)
RECURSIVE RenderElems(_, _)

\* serde_json's serialization of a JSON value.
RenderValue(v) ==
    CASE v.k = "null" -> <<Null>>
      [] v.k = "str" -> <<S(v.s)>>
      [] v.k = "num" -> <<N(v.n)>>
      [] v.k = "bool" -> <<Tok("bool", v.b)>>
      [] v.k = "obj" -> <<LBrace>> \o RenderMembers(v.f, 1) \o <<RBrace>>
      [] v.k = "arr" -> <<LBrack>> \o RenderElems(v.e, 1) \o <<RBrack>>

RenderMembers(f, i) ==
    IF i > Len(f) THEN <<>>
    ELSE (IF i > 1 THEN <<Comma>> ELSE <<>>)
         \o <<S(f[i].key), Colon>> \o RenderValue(f[i].val)
         \o RenderMembers(f, i + 1)

RenderElems(e, i) ==
    IF i > Len(e) THEN <<>>
    ELSE (IF i > 1 THEN <<Comma>> ELSE <<>>) \o RenderValue(e[i]) \o RenderElems(e, i + 1)

Member(key, val) == [key |-> key, val |-> val]
OptionValue(o) == IF o.some THEN o.v ELSE JNull

\* The ApiError payloads of the model.
Messages == {"Overloaded", "Number of requests has exceeded your rate limit"}
ErrorTypes == {"overloaded_error", "rate_limit_error"}
OptionalValues ==
    {None, Some(JStr("max_tokens")), Some(JObj(<<Member("retry_after", JNum("1"))>>))}
ApiErrors ==
    [message : Messages, error_type : ErrorTypes, param : OptionalValues, code : OptionalValues]

\* The members of an ApiError object: every field (what the derived
\* Serialize writes, None as null), or only the fields that are set.
ApiErrorMembers(e, sparse) ==
    <<Member("message", JStr(e.message)), Member("type", JStr(e.error_type))>>
    \o (IF sparse /\ ~e.param.some THEN <<>> ELSE <<Member("param", OptionValue(e.param))>>)
    \o (IF sparse /\ ~e.code.some THEN <<>> ELSE <<Member("code", OptionValue(e.code))>>)

EnvelopeShapes == {"serialized", "sparse", "typed", "seq"}

\* A body carrying the error envelope for e: as the derived Serialize of
\* ErrorResponse writes it, with unset fields left out, as the API sends it
\* (with a leading "type": "error" and the inner fields in the API's order),
\* or in the positional form serde accepts for a struct.
EnvelopeValue(e, shape) ==
    CASE shape = "serialized" -> JObj(<<Member("error", JObj(ApiErrorMembers(e, FALSE)))>>)
      [] shape = "sparse" -> JObj(<<Member("error", JObj(ApiErrorMembers(e, TRUE)))>>)
      [] shape = "typed" ->
           JObj(<<Member("type", JStr("error")),
                  Member("error", JObj(<<Member("type", JStr(e.error_type)),
                                         Member("message", JStr(e.message))>>
                                       \o SubSeq(ApiErrorMembers(e, TRUE), 3,
                                                 Len(ApiErrorMembers(e, TRUE))))),
                  Member("request_id", JStr("req_1"))>>)
      [] shape = "seq" ->
           JObj(<<Member("error", JArr(<<JStr(e.message), JStr(e.error_type),
                                         OptionValue(e.param), OptionValue(e.code)>>))>>)

EnvelopeBytes(e, shape) == RenderValue(EnvelopeValue(e, shape))

AnApiError ==
    [message |-> "Overloaded", error_type |-> "overloaded_error", param |-> None, code |-> None]

\* Bodies that are not the error envelope: empty, plain text, invalid
\* UTF-8, JSON of another shape, an envelope with a required field missing
\* or of the wrong type or repeated, a truncated envelope, an envelope
\* followed by more bytes.
NonEnvelopeBodies ==
    { <<>>,
      <<Junk>>,
      <<BadByte>>,
      <<Junk, BadByte, Junk>>,
      <<Null>>,
      <<S("error")>>,
      <<LBrace, RBrace>>,
      <<LBrack, RBrack>>,
      RenderValue(JObj(<<Member("error", JStr("Overloaded"))>>)),
      RenderValue(JObj(<<Member("error", JNull)>>)),
      RenderValue(JObj(<<Member("error", JObj(<<Member("message", JStr("Overloaded"))>>))>>)),
      RenderValue(JObj(<<Member("error", JObj(<<Member("type", JStr("overloaded_error"))>>))>>)),
      RenderValue(JObj(<<Member("error", JObj(<<Member("message", JNum("1")),
                                               Member("type", JStr("overloaded_error"))>>))>>)),
      RenderValue(JObj(<<Member("error", JObj(<<Member("message", JStr("Overloaded")),
                                               Member("type", JNull)>>))>>)),
      RenderValue(JObj(<<Member("error", JObj(<<Member("message", JStr("Overloaded")),
                                               Member("message", JStr("Overloaded")),
                                               Member("type", JStr("overloaded_error"))>>))>>)),
      RenderValue(JObj(<<Member("error", JArr(<<JStr("Overloaded"), JStr("overloaded_error")>>))>>)),
      RenderValue(JObj(<<Member("message", JStr("Overloaded")),
                         Member("type", JStr("overloaded_error"))>>)),
      SubSeq(EnvelopeBytes(AnApiError, "sparse"), 1, Len(EnvelopeBytes(AnApiError, "sparse")) - 1),
      EnvelopeBytes(AnApiError, "sparse") \o <<Junk>>,
      EnvelopeBytes(AnApiError, "serialized") \o <<BadByte>>,
      <<BadByte>> \o EnvelopeBytes(AnApiError, "serialized") }

\* HTTP status codes of the model: success and non-success ones.
Statuses == {200, 204, 400, 401, 429, 500, 529}
IsSuccess(status) == status >= 200 /\ status < 300

(***************************************************************************)
(* types.rs: derived Deserialize of the response and event records         *)
(***************************************************************************)

IsStr(f) == Required(f, "str")
IsUnsigned(f) == Required(f, "num") /\ f.v.n \in UnsignedLits
\* A field marked #[serde(default)]: absent (from a map or a short
\* sequence) is the default.
Defaulted(f) == f.st \in {"missing", "short"}
IsOptionStr(f) == f.st = "missing" \/ (f.st = "one" /\ f.v.k \in {"null", "str"})
OptionStr(f) == IF f.st = "missing" \/ f.v.k = "null" THEN None ELSE Some(f.v.s)

\* An internally tagged enum (#[serde(tag = "type")]): the tag, from the
\* "type" key of a map or the first element of a sequence.
TagOf(v) ==
    IF v.k = "obj"
    THEN LET t == Field(v, "type", 1) IN
         IF IsStr(t) THEN [ok |-> TRUE, tag |-> t.v.s] ELSE [ok |-> FALSE, tag |-> ""]
    ELSE IF v.k = "arr" /\ Len(v.e) >= 1 /\ v.e[1].k = "str"
    THEN [ok |-> TRUE, tag |-> v.e[1].s]
    ELSE [ok |-> FALSE, tag |-> ""]

\* What is left of an internally tagged value for the variant's fields.
ContentOf(v) ==
    IF v.k = "arr" THEN JArr(Tail(v.e))
    ELSE JObj(SelectSeq(v.f, LAMBDA m : m.key # "type"))

\* types.rs: enum Role.
Roles == {"user", "assistant"}
IsRole(f) == IsStr(f) /\ f.v.s \in Roles

\* types.rs: enum StopReason, as Option<StopReason>.
StopReasons == {"end_turn", "max_tokens", "stop_sequence", "tool_use"}
IsOptionStopReason(f) ==
    f.st = "missing" \/ (f.st = "one" /\ (f.v.k = "null" \/ (f.v.k = "str" /\ f.v.s \in StopReasons)))

\* types.rs: enum ImageSource.
DeImageSource(v) ==
    LET t == TagOf(v)
        c == ContentOf(v)
        m == Field(c, "media_type", 1)
        d == Field(c, "data", 2)
    IN  IF t.ok /\ t.tag = "base64" /\ IsStruct(c, 2) /\ IsStr(m) /\ IsStr(d)
        THEN DeOk([type |-> "base64", media_type |-> m.v.s, data |-> d.v.s])
        ELSE DeErr

RECURSIVE DeContentBlock(_)
RECURSIVE DeContentBlocks(_, _)
RECURSIVE DeToolResultContent(_)

\* Vec<ContentBlock>: the elements of e from index i on.
DeContentBlocks(e, i) ==
    IF i > Len(e) THEN DeOk(<<>>)
    ELSE LET b == DeContentBlock(e[i]) IN
         IF ~b.ok THEN DeErr
         ELSE LET rest == DeContentBlocks(e, i + 1) IN
              IF rest.ok THEN DeOk(<<b.val>> \o rest.val) ELSE DeErr

\* types.rs: #[serde(untagged)] enum ToolResultContent: the first variant
\* that fits.
DeToolResultContent(v) ==
    IF v.k = "str" THEN DeOk([text |-> v.s])
    ELSE IF v.k = "arr"
    THEN LET bs == DeContentBlocks(v.e, 1) IN
         IF bs.ok THEN DeOk([blocks |-> bs.val]) ELSE DeErr
    ELSE DeErr

\* types.rs: enum ContentBlock.
DeContentBlock(v) ==
    LET t == TagOf(v)
        c == ContentOf(v)
    IN  IF ~t.ok THEN DeErr
        ELSE CASE t.tag = "text" ->
                    LET x == Field(c, "text", 1) IN
                    IF IsStruct(c, 1) /\ IsStr(x)
                    THEN DeOk([type |-> "text", text |-> x.v.s]) ELSE DeErr
               [] t.tag = "image" ->
                    LET x == Field(c, "source", 1) IN
                    IF IsStruct(c, 1) /\ x.st = "one" /\ DeImageSource(x.v).ok
                    THEN DeOk([type |-> "image", source |-> DeImageSource(x.v).val])
                    ELSE DeErr
               [] t.tag = "tool_use" ->
                    LET id == Field(c, "id", 1)
                        nm == Field(c, "name", 2)
                        inp == Field(c, "input", 3)
                    IN  IF IsStruct(c, 3) /\ IsStr(id) /\ IsStr(nm) /\ inp.st = "one"
                        THEN DeOk([type |-> "tool_use", id |-> id.v.s, name |-> nm.v.s,
                                   input |-> inp.v])
                        ELSE DeErr
               [] t.tag = "tool_result" ->
                    LET id == Field(c, "tool_use_id", 1)
                        ie == Field(c, "is_error", 2)
                        ct == Field(c, "content", 3)
                    IN  IF IsStruct(c, 3) /\ IsStr(id)
                           /\ (Defaulted(ie) \/ (ie.st = "one" /\ ie.v.k \in {"null", "bool"}))
                           /\ ct.st = "one" /\ DeToolResultContent(ct.v).ok
                        THEN DeOk([type |-> "tool_result", tool_use_id |-> id.v.s,
                                   is_error |-> IF Defaulted(ie) \/ ie.v.k = "null"
                                                THEN None ELSE Some(ie.v.b),
                                   content |-> DeToolResultContent(ct.v).val])
                        ELSE DeErr
               [] t.tag = "thinking" ->
                    LET x == Field(c, "thinking", 1) IN
                    IF IsStruct(c, 1) /\ IsStr(x)
                    THEN DeOk([type |-> "thinking", thinking |-> x.v.s]) ELSE DeErr
               [] t.tag = "redacted_thinking" ->
                    LET x == Field(c, "data", 1) IN
                    IF IsStruct(c, 1) /\ IsStr(x)
                    THEN DeOk([type |-> "redacted_thinking", data |-> x.v.s]) ELSE DeErr
               [] OTHER -> DeErr

\* Vec<ContentBlock> as a field.
DeContent(f) ==
    IF f.st = "one" /\ f.v.k = "arr" THEN DeContentBlocks(f.v.e, 1) ELSE DeErr

\* types.rs: struct Message.
DeMessage(v) ==
    IF ~(v.k \in {"obj", "arr"}) THEN DeErr
    ELSE LET r == Field(v, "role", 1)
             c == Field(v, "content", 2)
         IN  IF IsStruct(v, 2) /\ IsRole(r) /\ DeContent(c).ok
             THEN DeOk([role |-> r.v.s, content |-> DeContent(c).val])
             ELSE DeErr

\* types.rs: enum ContentBlockDelta.
DeContentBlockDelta(v) ==
    LET t == TagOf(v)
        c == ContentOf(v)
    IN  IF ~t.ok THEN DeErr
        ELSE CASE t.tag = "text_delta" ->
                    LET x == Field(c, "text", 1) IN
                    IF IsStruct(c, 1) /\ IsStr(x)
                    THEN DeOk([type |-> "text_delta", text |-> x.v.s]) ELSE DeErr
               [] t.tag = "input_json_delta" ->
                    LET x == Field(c, "partial_json", 1) IN
                    IF IsStruct(c, 1) /\ IsStr(x)
                    THEN DeOk([type |-> "input_json_delta", partial_json |-> x.v.s])
                    ELSE DeErr
               [] OTHER -> DeErr

\* types.rs: struct MessageDelta.
DeMessageDelta(v) ==
    IF ~(v.k \in {"obj", "arr"}) THEN DeErr
    ELSE LET r == Field(v, "stop_reason", 1)
             q == Field(v, "stop_sequence", 2)
         IN  IF IsStruct(v, 2) /\ IsOptionStopReason(r) /\ IsOptionStr(q)
             THEN DeOk([stop_reason |-> OptionStr(r), stop_sequence |-> OptionStr(q)])
             ELSE DeErr

\* types.rs: struct MessageDeltaUsage.
DeMessageDeltaUsage(v) ==
    IF ~(v.k \in {"obj", "arr"}) THEN DeErr
    ELSE LET o == Field(v, "output_tokens", 1) IN
         IF IsStruct(v, 1) /\ IsUnsigned(o)
         THEN DeOk([output_tokens |-> o.v.n]) ELSE DeErr

\* A field holding a nested record read by de.
Nested(f, de(_)) == IF f.st = "one" THEN de(f.v) ELSE DeErr

\* types.rs: enum MessagesStreamEvent.
DeMessagesStreamEvent(v) ==
    LET t == TagOf(v)
        c == ContentOf(v)
    IN  IF ~t.ok THEN DeErr
        ELSE CASE t.tag = "message_start" ->
                    LET m == Nested(Field(c, "message", 1), DeMessage) IN
                    IF IsStruct(c, 1) /\ m.ok
                    THEN DeOk([type |-> "message_start", message |-> m.val]) ELSE DeErr
               [] t.tag = "content_block_start" ->
                    LET i == Field(c, "index", 1)
                        b == Nested(Field(c, "content_block", 2), DeContentBlock)
                    IN  IF IsStruct(c, 2) /\ IsUnsigned(i) /\ b.ok
                        THEN DeOk([type |-> "content_block_start", index |-> i.v.n,
                                   content_block |-> b.val])
                        ELSE DeErr
               [] t.tag = "content_block_delta" ->
                    LET i == Field(c, "index", 1)
                        d == Nested(Field(c, "delta", 2), DeContentBlockDelta)
                    IN  IF IsStruct(c, 2) /\ IsUnsigned(i) /\ d.ok
                        THEN DeOk([type |-> "content_block_delta", index |-> i.v.n,
                                   delta |-> d.val])
                        ELSE DeErr
               [] t.tag = "content_block_stop" ->
                    LET i == Field(c, "index", 1) IN
                    IF IsStruct(c, 1) /\ IsUnsigned(i)
                    THEN DeOk([type |-> "content_block_stop", index |-> i.v.n]) ELSE DeErr
               [] t.tag = "message_delta" ->
                    LET d == Nested(Field(c, "delta", 1), DeMessageDelta)
                        u == Nested(Field(c, "usage", 2), DeMessageDeltaUsage)
                    IN  IF IsStruct(c, 2) /\ d.ok /\ u.ok
                        THEN DeOk([type |-> "message_delta", delta |-> d.val, usage |-> u.val])
                        ELSE DeErr
               [] t.tag = "message_stop" ->
                    IF IsStruct(c, 0) THEN DeOk([type |-> "message_stop"]) ELSE DeErr
               [] OTHER -> DeErr

\* serde_json::from_str::<MessagesStreamEvent>.
FromStrMessagesStreamEvent(data) ==
    LET j == ParseJson(data) IN
    IF j.ok THEN DeMessagesStreamEvent(j.v) ELSE DeErr

\* types.rs: struct CacheCreation; both fields have a default.
DeCacheCreation(v) ==
    IF ~(v.k \in {"obj", "arr"}) THEN DeErr
    ELSE LET h == Field(v, "ephemeral_1h_input_tokens", 1)
             m == Field(v, "ephemeral_5m_input_tokens", 2)
         IN  IF (v.k = "obj" \/ Len(v.e) <= 2)
                /\ (Defaulted(h) \/ IsUnsigned(h)) /\ (Defaulted(m) \/ IsUnsigned(m))
             THEN DeOk([ephemeral_1h_input_tokens |-> IF Defaulted(h) THEN "0" ELSE h.v.n,
                        ephemeral_5m_input_tokens |-> IF Defaulted(m) THEN "0" ELSE m.v.n])
             ELSE DeErr

\* types.rs: struct Usage; every field but the first two has a default.
DeUsage(v) ==
    IF ~(v.k \in {"obj", "arr"}) THEN DeErr
    ELSE LET i == Field(v, "input_tokens", 1)
             o == Field(v, "output_tokens", 2)
             cc == Field(v, "cache_creation_input_tokens", 3)
             cr == Field(v, "cache_read_input_tokens", 4)
             cn == Field(v, "cache_creation", 5)
             st == Field(v, "service_tier", 6)
         IN  IF (v.k = "obj" \/ Len(v.e) \in 2..6) /\ IsUnsigned(i) /\ IsUnsigned(o)
                /\ (Defaulted(cc) \/ IsUnsigned(cc)) /\ (Defaulted(cr) \/ IsUnsigned(cr))
                /\ (Defaulted(cn) \/ Nested(cn, DeCacheCreation).ok)
                /\ (Defaulted(st) \/ IsOptionStr(st))
             THEN DeOk([input_tokens |-> i.v.n, output_tokens |-> o.v.n,
                        cache_creation_input_tokens |-> IF Defaulted(cc) THEN "0" ELSE cc.v.n,
                        cache_read_input_tokens |-> IF Defaulted(cr) THEN "0" ELSE cr.v.n,
                        cache_creation |-> IF Defaulted(cn)
                                           THEN [ephemeral_1h_input_tokens |-> "0",
                                                 ephemeral_5m_input_tokens |-> "0"]
                                           ELSE Nested(cn, DeCacheCreation).val,
                        service_tier |-> IF Defaulted(st) THEN None ELSE OptionStr(st)])
             ELSE DeErr

\* types.rs: struct MessagesResponse.
DeMessagesResponse(v) ==
    IF ~(v.k \in {"obj", "arr"}) THEN DeErr
    ELSE LET id == Field(v, "id", 1)
             ty == Field(v, "type", 2)
             ro == Field(v, "role", 3)
             ct == Field(v, "content", 4)
             mo == Field(v, "model", 5)
             sr == Field(v, "stop_reason", 6)
             sq == Field(v, "stop_sequence", 7)
             us == Nested(Field(v, "usage", 8), DeUsage)
         IN  IF IsStruct(v, 8) /\ IsStr(id) /\ IsStr(ty) /\ IsRole(ro) /\ DeContent(ct).ok
                /\ IsStr(mo) /\ IsOptionStopReason(sr) /\ IsOptionStr(sq) /\ us.ok
             THEN DeOk([id |-> id.v.s, message_type |-> ty.v.s, role |-> ro.v.s,
                        content |-> DeContent(ct).val, model |-> mo.v.s,
                        stop_reason |-> OptionStr(sr), stop_sequence |-> OptionStr(sq),
                        usage |-> us.val])
             ELSE DeErr

\* serde_json::from_slice::<MessagesResponse>.
FromSliceMessagesResponse(bytes) ==
    LET j == ParseJson(bytes) IN
    IF j.ok THEN DeMessagesResponse(j.v) ELSE DeErr

(***************************************************************************)
(* client.rs: the client and its headers                                   *)
(***************************************************************************)

\* Strings that end up in header values are sequences of byte values.
SkKey == <<115, 107, 45, 49>>
SkKeyWithNewline == <<115, 107, 10, 49>>
DEFAULT_API_VERSION == <<50, 48, 50, 51>>
\* "https://a" and "a.com".
DEFAULT_API_BASE == <<104, 116, 116, 112, 115, 58, 47, 47, 97>>
ApiBaseWithoutScheme == <<97, 46, 99, 111, 109>>

\* Url::parse, as far as the client depends on it: an absolute URL starts
\* with a scheme, letters up to a colon.
UrlParses(str) ==
    \E i \in 2..Len(str) :
        str[i] = 58 /\ \A j \in 1..(i - 1) : str[j] \in (65..90) \cup (97..122)

\* HeaderValue::from_str: visible ASCII, tab, or bytes above 127 only.
HeaderValueOk(str) ==
    \A i \in 1..Len(str) : (str[i] >= 32 \/ str[i] = 9) /\ str[i] # 127

\* The backoff policies (backoff::ExponentialBackoff) of the model, in clock
\* ticks: the interval starts at initial_interval, is multiplied after every
\* retry up to max_interval, and is drawn within randomization (a fraction
\* num/den) of the current interval; max_elapsed_time is optional.
Policies ==
    { [initial_interval |-> 1, multiplier |-> 2, max_interval |-> 2,
       randomization |-> [num |-> 1, den |-> 2], max_elapsed_time |-> Some(3)],
      [initial_interval |-> 1, multiplier |-> 2, max_interval |-> 2,
       randomization |-> [num |-> 1, den |-> 2], max_elapsed_time |-> None] }

\* The clients ClientBuilder::build can return.
Clients ==
    [api_key : {SkKey, SkKeyWithNewline}, api_base : {DEFAULT_API_BASE, ApiBaseWithoutScheme},
     api_version : {DEFAULT_API_VERSION}, beta : {None}, backoff : Policies]

\* The credentials, base URLs, beta flags and policies a caller hands to
\* the builder.
EmptyKey == <<>>
BuilderKeys == {EmptyKey, SkKey, SkKeyWithNewline}
BuilderBases == {ApiBaseWithoutScheme}
\* "2024".
BuilderVersions == {<<50, 48, 50, 52>>}
\* "b1".
BuilderBetas == {<<98, 49>>}

\* ExponentialBackoff::default(), in the clock ticks of Policies: a policy
\* with a finite max_elapsed_time.
DefaultBackoff ==
    [initial_interval |-> 1, multiplier |-> 2, max_interval |-> 2,
     randomization |-> [num |-> 1, den |-> 2], max_elapsed_time |-> Some(3)]

\* ClientBuilder::new(): nothing set.
NewBuilder ==
    [api_key |-> None, api_base |-> None, api_version |-> None, beta |-> None,
     backoff |-> None]

unwrap_or(opt, default) == IF opt.some THEN opt.v ELSE default

\* ClientBuilder::build: InvalidRequest when no api_key was set, otherwise
\* the Client with the defaults filled in.
build(b) ==
    IF ~b.api_key.some
    THEN [ok |-> FALSE, err |-> [kind |-> "InvalidRequest", msg |-> "api_key is required"]]
    ELSE [ok |-> TRUE,
          val |-> [api_key |-> b.api_key.v,
                   api_base |-> unwrap_or(b.api_base, DEFAULT_API_BASE),
                   api_version |-> unwrap_or(b.api_version, DEFAULT_API_VERSION),
                   beta |-> b.beta,
                   backoff |-> unwrap_or(b.backoff, DefaultBackoff)]]

\* Client::headers: the header map, or a panic from unwrap().
headers(c) ==
    IF HeaderValueOk(c.api_key) /\ HeaderValueOk(c.api_version)
       /\ (c.beta.some => HeaderValueOk(c.beta.v))
    THEN [panic |-> FALSE,
          map |-> [api_key |-> c.api_key, version |-> c.api_version,
                   content_type |-> "application/json", accept |-> "application/json",
                   user_agent |-> "claude-code/2.1.2", beta |-> c.beta]]
    ELSE [panic |-> TRUE]

(***************************************************************************)
(* The retry loop: backoff::future::retry over ExponentialBackoff          *)
(***************************************************************************)

Min(a, b) == IF a < b THEN a ELSE b

\* The state a retry loop starts from: a clone of the policy, reset.
FreshBackoff(policy) == [current_interval |-> policy.initial_interval, elapsed |-> 0]

\* The intervals the jitter can draw around the current interval.
RandomizedIntervals(policy, cur) ==
    LET delta == (cur * policy.randomization.num) \div policy.randomization.den
    IN  (cur - delta)..(cur + delta)

\* ExponentialBackoff::next_backoff with the jitter drawing interval: no
\* further delay once the elapsed time is past max_elapsed_time or the delay
\* would take it there.
next_backoff(policy, st, interval) ==
    IF policy.max_elapsed_time.some
       /\ (st.elapsed > policy.max_elapsed_time.v
           \/ st.elapsed + interval > policy.max_elapsed_time.v)
    THEN None
    ELSE Some(interval)

increment_current_interval(policy, st) ==
    Min(st.current_interval * policy.multiplier, policy.max_interval)

(***************************************************************************)
(* client.rs: the buffered call                                            *)
(***************************************************************************)

TOO_MANY_REQUESTS == 429

Ok(x) == [ok |-> TRUE, val |-> x]
Err(e) == [ok |-> FALSE, err |-> e]
Permanent(e) == [tag |-> "permanent", err |-> e]
Transient(e) == [tag |-> "transient", err |-> e, retry_after |-> None]
Done(x) == [tag |-> "ok", val |-> x]

\* Variants of the retry closure: every failure status transient; a success
\* body that fails to decode transient.
attempt_all_statuses_transient(status, bytes) ==
    IF ~IsSuccess(status)
    THEN Transient(parse_error(status, bytes))
    ELSE LET r == FromSliceMessagesResponse(bytes) IN
         IF r.ok THEN Done(r.val) ELSE Permanent(Deserialize)

attempt_decode_transient(status, bytes) ==
    IF ~IsSuccess(status)
    THEN LET error == parse_error(status, bytes) IN
         IF status = TOO_MANY_REQUESTS THEN Transient(error) ELSE Permanent(error)
    ELSE LET r == FromSliceMessagesResponse(bytes) IN
         IF r.ok THEN Done(r.val) ELSE Transient(Deserialize)

\* Client::execute, the closure handed to retry, once the response and its
\* body have arrived.
attempt(status, bytes) ==
    IF ~IsSuccess(status)
    THEN LET error == parse_error(status, bytes) IN
         IF status = TOO_MANY_REQUESTS THEN Transient(error) ELSE Permanent(error)
    ELSE LET r == FromSliceMessagesResponse(bytes) IN
         IF r.ok THEN Done(r.val) ELSE Permanent(Deserialize)

\* process_response: the path without retry.
process_response(status, bytes) ==
    IF ~IsSuccess(status) THEN Err(parse_error(status, bytes))
    ELSE LET r == FromSliceMessagesResponse(bytes) IN
         IF r.ok THEN Ok(r.val) ELSE Err(Deserialize)

\* Request::try_clone: a request whose body is a byte buffer can be cloned,
\* one whose body is a stream cannot.
try_clone(request) == IF request.body.kind = "bytes" THEN Some(request) ELSE None

\* RequestBuilder::json: the body is the serialized request, a byte buffer.
\* A stream field that is None is skipped by the serializer.
json(request) == [kind |-> "bytes", stream |-> request.stream]

\* retry giving up with a transport error instead of the error of the last
\* attempt.
retry_loses_last_error(policy, st, out, interval) ==
    CASE out.tag = "ok" -> [pc |-> "returned", result |-> Ok(out.val), backoff |-> st, sleep |-> 0]
      [] out.tag = "permanent" ->
           [pc |-> "returned", result |-> Err(out.err), backoff |-> st, sleep |-> 0]
      [] out.tag = "transient" ->
           LET delay == IF out.retry_after.some THEN out.retry_after
                        ELSE next_backoff(policy, st, interval)
           IN  IF delay.some
               THEN [pc |-> "sleeping", result |-> Err(out.err), sleep |-> delay.v,
                     backoff |-> [st EXCEPT !.current_interval =
                                               increment_current_interval(policy, st)]]
               ELSE [pc |-> "returned", result |-> Err(Http), backoff |-> st, sleep |-> 0]

\* What retry does with the outcome of one attempt: return it, or sleep for
\* the next delay of the backoff, or return the error when there is none.
retry(policy, st, out, interval) ==
    CASE out.tag = "ok" -> [pc |-> "returned", result |-> Ok(out.val), backoff |-> st, sleep |-> 0]
      [] out.tag = "permanent" ->
           [pc |-> "returned", result |-> Err(out.err), backoff |-> st, sleep |-> 0]
      [] out.tag = "transient" ->
           LET delay == IF out.retry_after.some THEN out.retry_after
                        ELSE next_backoff(policy, st, interval)
           IN  IF delay.some
               THEN [pc |-> "sleeping", result |-> Err(out.err), sleep |-> delay.v,
                     backoff |-> [st EXCEPT !.current_interval =
                                               increment_current_interval(policy, st)]]
               ELSE [pc |-> "returned", result |-> Err(out.err), backoff |-> st, sleep |-> 0]

(***************************************************************************)
(* Inputs of the buffered call                                             *)
(***************************************************************************)

\* MessagesRequest: the stream field is what the client looks at.
Requests == [stream : {None, Some(FALSE), Some(TRUE)}]

AMessagesResponse ==
    JObj(<<Member("id", JStr("msg_1")), Member("type", JStr("message")),
           Member("role", JStr("assistant")),
           Member("content", JArr(<<JObj(<<Member("type", JStr("text")),
                                           Member("text", JStr("Hello"))>>)>>)),
           Member("model", JStr("claude-3-5-sonnet-20240620")),
           Member("stop_reason", JStr("end_turn")), Member("stop_sequence", JNull),
           Member("usage", JObj(<<Member("input_tokens", JNum("1")),
                                  Member("output_tokens", JNum("2"))>>))>>)

ARateLimitError ==
    [message |-> "Number of requests has exceeded your rate limit",
     error_type |-> "rate_limit_error", param |-> None, code |-> Some(JStr("max_tokens"))]

\* Bodies a response can carry: a well-formed success body, one with a
\* field of the wrong type, two error envelopes, and text that is no JSON.
ResponseBodies ==
    { RenderValue(AMessagesResponse),
      RenderValue(JObj(<<Member("id", JStr("msg_1")), Member("type", JStr("message")),
                         Member("role", JStr("system"))>>)),
      EnvelopeBytes(AnApiError, "typed"),
      EnvelopeBytes(ARateLimitError, "serialized"),
      <<Junk, BadByte>> }

ResponseStatuses == {200, 400, TOO_MANY_REQUESTS, 500}

\* The Retry-After header of a response: absent, or a delay in clock ticks
\* longer than any the policies of the model give. It comes with the status
\* that asks the caller to slow down.
RetryAfters(status) == IF status = 429 THEN {None, Some(5)} ELSE {None}

\* Clock ticks one HTTP attempt can take.
AttemptTicks == {0, 1}

\* The most HTTP attempts of one call the model counts.
MaxAttempts == 3

\* The clock of the backoff is read up to ElapsedCap, which lies past every
\* max_elapsed_time of Policies: later times compare alike.
ElapsedCap == 8

Clock(t) == Min(t, ElapsedCap)

\* The statuses seen and the requests issued, the last MaxAttempts of them.
Observe(log, item) ==
    IF Len(log) < MaxAttempts THEN Append(log, item)
    ELSE Append(Tail(log), item)

(***************************************************************************)
(* State                                                                   *)
(***************************************************************************)

VARIABLES
    builder,    \* the ClientBuilder: what the caller has set so far
    buildOut,      \* what ClientBuilder::build returned
    client,     \* the Client: credential, version, beta flag, backoff policy
    cStatus,    \* the status handed to parse_error
    cBytes,     \* the body handed to parse_error
    cOut,       \* what parse_error returned
    call,       \* the buffered call: position, request, backoff state, result
    netCalls,   \* how many HTTP requests the transport has been asked to send
    calls,      \* the buffered calls sharing the client, each with its backoff state
    strm,       \* the streaming call: position of the producer task, request
    es,         \* the EventSource: "none", "connecting", "open" or "closed"
    wireLog,    \* what the EventSource has yielded to the producer, in order
    chan,       \* the items in the channel between producer and consumer
    consumer,   \* the receiving end: "none", "holding", "ended" or "dropped"
    delivered   \* the items the consumer has pulled, in order

cvars == <<cStatus, cBytes, cOut>>
bvars == <<call, netCalls>>
svars == <<strm, es, wireLog, chan, consumer, delivered>>
kvars == <<builder, buildOut>>
vars == <<builder, buildOut, client, cStatus, cBytes, cOut, call, netCalls, calls, strm, es,
          wireLog, chan, consumer, delivered>>

NoOut == [kind |-> "none"]
NoResult == [kind |-> "none"]
NoRequest == [kind |-> "none"]
NoResponse == [kind |-> "none", status |-> 0, retry_after |-> None, bytes |-> <<>>]

IdleCall ==
    [pc |-> "idle", request |-> NoRequest, sent |-> NoRequest, mode |-> "none",
     backoff |-> [current_interval |-> 0, elapsed |-> 0], sleep |-> 0,
     issued |-> <<>>, statuses |-> <<>>, last |-> NoResponse, result |-> NoResult]

NoClient == [kind |-> "none"]
BuilderIdle == builder = NewBuilder /\ buildOut = NoResult
ClassifierIdle == cStatus = 0 /\ cBytes = <<>> /\ cOut = NoOut

\* The calls that can be in flight on one client at a time.
CallIds == {1, 2}

\* One of them: its position, the backoff state of its retry loop, the
\* delay it sits in, its result, and, kept apart from the backoff state, the
\* HTTP attempts it has made and the time its own attempts and delays took.
NotCalled ==
    [pc |-> "idle", backoff |-> [current_interval |-> 0, elapsed |-> 0], sleep |-> 0,
     result |-> NoResult, attempts |-> 0, waited |-> 0]

BufferedIdle == call = IdleCall /\ netCalls = 0 /\ calls = [i \in CallIds |-> NotCalled]

IdleStream == [pc |-> "idle", request |-> NoRequest, sent |-> NoRequest, closes |-> 0]

StreamIdle ==
    /\ strm = IdleStream
    /\ es = "none"
    /\ wireLog = <<>>
    /\ chan = <<>>
    /\ consumer = "none"
    /\ delivered = <<>>

(***************************************************************************)
(* client.rs: building a client                                            *)
(***************************************************************************)

\* ClientBuilder::api_key, api_base, api_version, beta, backoff: each sets
\* its field and hands the builder back.
api_key(key) ==
    /\ buildOut = NoResult
    /\ builder' = [builder EXCEPT !.api_key = Some(key)]
    /\ UNCHANGED <<calls, buildOut, client, cvars, bvars, svars>>

api_base(base) ==
    /\ buildOut = NoResult
    /\ builder' = [builder EXCEPT !.api_base = Some(base)]
    /\ UNCHANGED <<calls, buildOut, client, cvars, bvars, svars>>

api_version(version) ==
    /\ buildOut = NoResult
    /\ builder' = [builder EXCEPT !.api_version = Some(version)]
    /\ UNCHANGED <<calls, buildOut, client, cvars, bvars, svars>>

beta(flag) ==
    /\ buildOut = NoResult
    /\ builder' = [builder EXCEPT !.beta = Some(flag)]
    /\ UNCHANGED <<calls, buildOut, client, cvars, bvars, svars>>

backoff(policy) ==
    /\ buildOut = NoResult
    /\ builder' = [builder EXCEPT !.backoff = Some(policy)]
    /\ UNCHANGED <<calls, buildOut, client, cvars, bvars, svars>>

\* ClientBuilder::build consumes the builder.
Build ==
    /\ buildOut = NoResult
    /\ buildOut' = build(builder)
    /\ client' = IF buildOut'.ok THEN buildOut'.val ELSE client
    /\ UNCHANGED <<calls, builder, cvars, bvars, svars>>

\* Client::new: ClientBuilder::new().api_key(api_key).build().
New(key) ==
    /\ buildOut = NoResult
    /\ builder = NewBuilder
    /\ builder' = [NewBuilder EXCEPT !.api_key = Some(key)]
    /\ buildOut' = build(builder')
    /\ client' = IF buildOut'.ok THEN buildOut'.val ELSE client
    /\ UNCHANGED <<calls, cvars, bvars, svars>>

BuildInit ==
    /\ BuilderIdle
    /\ client = NoClient
    /\ ClassifierIdle
    /\ BufferedIdle
    /\ StreamIdle

BuildNext ==
    \/ \E key \in BuilderKeys : api_key(key)
    \/ \E base \in BuilderBases : api_base(base)
    \/ \E version \in BuilderVersions : api_version(version)
    \/ \E flag \in BuilderBetas : beta(flag)
    \/ \E policy \in Policies : backoff(policy)
    \/ Build
    \/ \E key \in BuilderKeys : New(key)

SpecBuild == BuildInit /\ [][BuildNext]_vars

(***************************************************************************)
(* The classifier on its own                                               *)
(***************************************************************************)

EnvelopeBodies == {EnvelopeBytes(e, shape) : e \in ApiErrors, shape \in EnvelopeShapes}

ClassifyInit ==
    /\ client \in {c \in Clients : /\ c.api_key = SkKey
                                    /\ c.api_base = DEFAULT_API_BASE
                                    /\ c.backoff.max_elapsed_time.some}
    /\ cStatus \in Statuses
    /\ cBytes \in EnvelopeBodies \cup NonEnvelopeBodies
    /\ cOut = NoOut
    /\ BuilderIdle
    /\ BufferedIdle
    /\ StreamIdle

Classify ==
    /\ cOut = NoOut
    /\ cOut' = parse_error(cStatus, cBytes)
    /\ UNCHANGED <<calls, kvars, client, cStatus, cBytes, bvars, svars>>

ClassifyNext == Classify

SpecClassify == ClassifyInit /\ [][ClassifyNext]_vars

(***************************************************************************)
(* The buffered call                                                       *)
(***************************************************************************)

\* "/v1": the path the messages endpoint is posted to.
Path == <<47, 118, 49>>

\* A buffered call that lets every request through.
stream_requested_never(request) == FALSE

\* matches!(request.stream, Some(true)).
stream_requested(request) == request.stream = Some(TRUE)

\* Client::messages, through Client::post, up to the first HTTP attempt of
\* Client::execute.  In post the headers are made first (unwrap() panics on
\* a value that is no header value), then build() fails on a URL that does
\* not parse.
messages(request) ==
    /\ call.pc = "idle"
    /\ IF stream_requested(request)
       THEN /\ call' = [call EXCEPT !.pc = "returned", !.request = request,
                          !.result = Err(InvalidRequest("stream=true requests must use messages_stream"))]
            /\ UNCHANGED netCalls
       ELSE LET h == headers(client) IN
            IF h.panic
            THEN /\ call' = [call EXCEPT !.pc = "panicked", !.request = request]
                 /\ UNCHANGED netCalls
            ELSE IF ~UrlParses(client.api_base)
            THEN /\ call' = [call EXCEPT !.pc = "returned", !.request = request,
                               !.result = Err(Http)]
                 /\ UNCHANGED netCalls
            ELSE LET built == [url |-> client.api_base \o Path, headers |-> h.map,
                               body |-> json([request EXCEPT !.stream = None])]
                 IN  /\ call' = [call EXCEPT !.pc = "sending", !.request = request,
                                    !.sent = built,
                                    !.issued = <<IF try_clone(built).some
                                                 THEN try_clone(try_clone(built).v).v
                                                 ELSE built>>,
                                    !.mode = IF try_clone(built).some THEN "retry" ELSE "once",
                                    !.backoff = FreshBackoff(client.backoff)]
                     /\ netCalls' = netCalls + 1
    /\ UNCHANGED <<calls, kvars, client, cvars, svars>>

\* The retry closure with a failed send handed to the backoff as transient.
AttemptSendError_transient(ticks) ==
    /\ call.pc = "sending"
    /\ \E interval \in RandomizedIntervals(client.backoff, call.backoff.current_interval) :
         LET st == [call.backoff EXCEPT !.elapsed = Clock(@ + ticks)]
             r == retry(client.backoff, st, Transient(Http), interval)
         IN  call' = [call EXCEPT !.pc = r.pc, !.result = r.result, !.backoff = r.backoff,
                                  !.sleep = r.sleep,
                                  !.last = [NoResponse EXCEPT !.kind = "send_error"]]
    /\ UNCHANGED <<calls, kvars, client, cvars, netCalls, svars>>

\* client.execute(..) fails: a transport error, permanent.
AttemptSendError(ticks) ==
    /\ call.pc = "sending"
    /\ call' = [call EXCEPT !.pc = "returned", !.result = Err(Http),
                  !.last = [NoResponse EXCEPT !.kind = "send_error"],
                  !.backoff.elapsed = Clock(@ + ticks)]
    /\ UNCHANGED <<calls, kvars, client, cvars, netCalls, svars>>

\* The response arrives but reading its body fails: permanent.
AttemptBodyError(status, ticks) ==
    /\ call.pc = "sending"
    /\ call' = [call EXCEPT !.pc = "returned", !.result = Err(Http),
                  !.statuses = Observe(@, status),
                  !.last = [NoResponse EXCEPT !.kind = "body_error", !.status = status],
                  !.backoff.elapsed = Clock(@ + ticks)]
    /\ UNCHANGED <<calls, kvars, client, cvars, netCalls, svars>>

\* The retry closure handing the Retry-After of a transient response to the
\* backoff as the delay to use.
AttemptResponse_honours_retry_after(status, retry_after, bytes, ticks, interval) ==
    /\ call.pc = "sending"
    /\ LET st == [call.backoff EXCEPT !.elapsed = Clock(@ + ticks)]
           seen == [call EXCEPT !.statuses = Observe(@, status),
                                !.last = [kind |-> "response", status |-> status,
                                          retry_after |-> retry_after, bytes |-> bytes]]
           out == attempt(status, bytes)
           hinted == IF out.tag = "transient" THEN [out EXCEPT !.retry_after = retry_after]
                     ELSE out
       IN  IF call.mode = "retry"
           THEN LET r == retry(client.backoff, st, hinted, interval) IN
                call' = [seen EXCEPT !.pc = r.pc, !.result = r.result,
                                     !.backoff = r.backoff, !.sleep = r.sleep]
           ELSE call' = [seen EXCEPT !.pc = "returned", !.backoff = st,
                                     !.result = process_response(status, bytes)]
    /\ UNCHANGED <<calls, kvars, client, cvars, netCalls, svars>>

\* The response and its body arrive; of the response the closure reads the
\* status and the body, not the headers.
AttemptResponse(status, retry_after, bytes, ticks, interval) ==
    /\ call.pc = "sending"
    /\ LET st == [call.backoff EXCEPT !.elapsed = Clock(@ + ticks)]
           seen == [call EXCEPT !.statuses = Observe(@, status),
                                !.last = [kind |-> "response", status |-> status,
                                          retry_after |-> retry_after, bytes |-> bytes]]
       IN  IF call.mode = "retry"
           THEN LET r == retry(client.backoff, st, attempt(status, bytes), interval) IN
                call' = [seen EXCEPT !.pc = r.pc, !.result = r.result,
                                     !.backoff = r.backoff, !.sleep = r.sleep]
           ELSE call' = [seen EXCEPT !.pc = "returned", !.backoff = st,
                                     !.result = process_response(status, bytes)]
    /\ UNCHANGED <<calls, kvars, client, cvars, netCalls, svars>>

\* The retry closure run again with the request serialized anew from the
\* MessagesRequest the caller passed.
Reissue_reserialized(c) ==
    [c EXCEPT !.pc = "sending", !.backoff.elapsed = Clock(@ + c.sleep), !.sleep = 0,
              !.result = NoResult,
              !.issued = Observe(@, [c.sent EXCEPT !.body = json(c.request)])]

\* The retry closure run again: client.execute(request.try_clone()..) on a
\* clone of the request built before the first attempt.
Reissue(c) ==
    [c EXCEPT !.pc = "sending", !.backoff.elapsed = Clock(@ + c.sleep), !.sleep = 0,
              !.result = NoResult,
              !.issued = Observe(@, try_clone(c.sent).v)]

\* The delay is over: the next HTTP attempt.
Wake ==
    /\ call.pc = "sleeping"
    /\ netCalls < MaxAttempts
    /\ call' = Reissue(call)
    /\ netCalls' = netCalls + 1
    /\ UNCHANGED <<calls, kvars, client, cvars, svars>>

\* The same step once MaxAttempts attempts are counted: the attempt is
\* made and counted no further.
WakeUncounted ==
    /\ call.pc = "sleeping"
    /\ netCalls = MaxAttempts
    /\ call' = Reissue(call)
    /\ UNCHANGED <<calls, kvars, client, cvars, netCalls, svars>>

BufferedInit ==
    /\ client \in Clients
    /\ BuilderIdle
    /\ ClassifierIdle
    /\ BufferedIdle
    /\ StreamIdle

BufferedNext ==
    \/ \E request \in Requests : messages(request)
    \/ \E ticks \in AttemptTicks : AttemptSendError(ticks)
    \/ \E status \in ResponseStatuses, ticks \in AttemptTicks : AttemptBodyError(status, ticks)
    \/ \E status \in ResponseStatuses :
         \E retry_after \in RetryAfters(status), bytes \in ResponseBodies, ticks \in AttemptTicks :
           \E interval \in RandomizedIntervals(client.backoff, call.backoff.current_interval) :
             AttemptResponse(status, retry_after, bytes, ticks, interval)
    \/ Wake

SpecBuffered == BufferedInit /\ [][BufferedNext]_vars

\* An attempt ends, with a response or an error: the HTTP client gives up
\* on a request after its timeout.
AttemptEnds ==
    \/ \E ticks \in AttemptTicks : AttemptSendError(ticks)
    \/ \E status \in ResponseStatuses, ticks \in AttemptTicks : AttemptBodyError(status, ticks)
    \/ \E status \in ResponseStatuses :
         \E retry_after \in RetryAfters(status), bytes \in ResponseBodies, ticks \in AttemptTicks :
           \E interval \in RandomizedIntervals(client.backoff, call.backoff.current_interval) :
             AttemptResponse(status, retry_after, bytes, ticks, interval)

BufferedLiveNext ==
    \/ \E request \in Requests : messages(request)
    \/ AttemptEnds
    \/ Wake
    \/ WakeUncounted

\* The buffered call followed past MaxAttempts, every attempt ending and
\* every delay of the backoff expiring.
SpecBufferedLive ==
    /\ BufferedInit
    /\ [][BufferedLiveNext]_vars
    /\ WF_vars(AttemptEnds)
    /\ WF_vars(Wake \/ WakeUncounted)

(***************************************************************************)
(* client.rs: buffered calls sharing one client                            *)
(***************************************************************************)

\* What the calls sharing a client are answered with: a success, a rate
\* limit error, a server error with a body that is no JSON.
CallAnswers ==
    { [status |-> 200, bytes |-> RenderValue(AMessagesResponse)],
      [status |-> TOO_MANY_REQUESTS, bytes |-> EnvelopeBytes(ARateLimitError, "serialized")],
      [status |-> 500, bytes |-> <<Junk, BadByte>>] }

\* What the retry closure makes of each.
CallOutcomes == { attempt(answer.status, answer.bytes) : answer \in CallAnswers }

\* One backoff state for all the calls of a client: what a retry loop
\* writes, every call reads.
Store_shared_backoff(cs, i, c) ==
    [j \in CallIds |-> IF j = i THEN c ELSE [cs[j] EXCEPT !.backoff = c.backoff]]

\* The retry loop of a call works on self.backoff.clone(): what it writes
\* is the call's own.
Store(cs, i, c) == [cs EXCEPT ![i] = c]

\* Client::messages on a client other calls may be using, up to the first
\* HTTP attempt; a call that has returned can be followed by the next.
CallStarts(i, request) ==
    /\ calls[i].pc \in {"idle", "returned"}
    /\ calls' = Store(calls, i,
         IF stream_requested(request)
         THEN [NotCalled EXCEPT !.pc = "returned",
                 !.result = Err(InvalidRequest("stream=true requests must use messages_stream"))]
         ELSE IF headers(client).panic
         THEN [NotCalled EXCEPT !.pc = "panicked"]
         ELSE IF ~UrlParses(client.api_base)
         THEN [NotCalled EXCEPT !.pc = "returned", !.result = Err(Http)]
         ELSE [NotCalled EXCEPT !.pc = "sending", !.backoff = FreshBackoff(client.backoff),
                                !.attempts = 1])
    /\ UNCHANGED <<kvars, client, cvars, bvars, svars>>

\* The send, or reading the body, fails: permanent.
CallTransportFails(i, ticks) ==
    /\ calls[i].pc = "sending"
    /\ calls' = Store(calls, i,
         [calls[i] EXCEPT !.pc = "returned", !.result = Err(Http),
                          !.backoff.elapsed = Clock(@ + ticks), !.waited = Clock(@ + ticks)])
    /\ UNCHANGED <<kvars, client, cvars, bvars, svars>>

\* The response and its body arrive and the closure returns out. The body
\* of the request is a byte buffer, so try_clone gave a request and the call
\* is in the retry loop.
CallAnswered(i, out, ticks, interval) ==
    /\ calls[i].pc = "sending"
    /\ LET st == [calls[i].backoff EXCEPT !.elapsed = Clock(@ + ticks)]
           r == retry(client.backoff, st, out, interval)
       IN  calls' = Store(calls, i,
             [calls[i] EXCEPT !.pc = r.pc, !.result = r.result, !.backoff = r.backoff,
                              !.sleep = r.sleep, !.waited = Clock(@ + ticks)])
    /\ UNCHANGED <<kvars, client, cvars, bvars, svars>>

\* The delay of a call is over: its next HTTP attempt.
CallWakes(i) ==
    /\ calls[i].pc = "sleeping"
    /\ calls[i].attempts < MaxAttempts
    /\ calls' = Store(calls, i,
         [calls[i] EXCEPT !.pc = "sending", !.backoff.elapsed = Clock(@ + calls[i].sleep),
                          !.waited = Clock(@ + calls[i].sleep), !.sleep = 0,
                          !.result = NoResult, !.attempts = @ + 1])
    /\ UNCHANGED <<kvars, client, cvars, bvars, svars>>

CallsInit ==
    /\ client \in Clients
    /\ BuilderIdle
    /\ ClassifierIdle
    /\ BufferedIdle
    /\ StreamIdle

CallsNext ==
    \/ \E i \in CallIds, request \in Requests : CallStarts(i, request)
    \/ \E i \in CallIds, ticks \in AttemptTicks : CallTransportFails(i, ticks)
    \/ \E i \in CallIds, out \in CallOutcomes, ticks \in AttemptTicks :
         \E interval \in RandomizedIntervals(client.backoff,
                                             calls[i].backoff.current_interval) :
           CallAnswered(i, out, ticks, interval)
    \/ \E i \in CallIds : CallWakes(i)

SpecCalls == CallsInit /\ [][CallsNext]_vars

(***************************************************************************)
(* What the EventSource yields                                             *)
(***************************************************************************)

Open == [kind |-> "open", event |-> "", data |-> <<>>]
Message(event, data) == [kind |-> "message", event |-> event, data |-> data]
\* reqwest_eventsource::Error: the stream ended, a transport error (the
\* source connects again), a response that is no event stream (the source
\* closes itself).
StreamEnded == [kind |-> "error", event |-> "StreamEnded", data |-> <<>>]
TransportError == [kind |-> "error", event |-> "Transport", data |-> <<>>]
InvalidStatusCode == [kind |-> "error", event |-> "InvalidStatusCode", data |-> <<>>]

PingFrame == Message("ping", RenderValue(JObj(<<Member("type", JStr("ping"))>>)))

MessageStartFrame ==
    Message("message_start",
        RenderValue(JObj(<<Member("type", JStr("message_start")),
            Member("message",
                JObj(<<Member("id", JStr("msg_1")), Member("type", JStr("message")),
                       Member("role", JStr("assistant")), Member("content", JArr(<<>>)),
                       Member("model", JStr("claude-3-5-sonnet-20240620")),
                       Member("stop_reason", JNull), Member("stop_sequence", JNull),
                       Member("usage", JObj(<<Member("input_tokens", JNum("1")),
                                              Member("output_tokens", JNum("1"))>>))>>))>>)))

ContentBlockDeltaValue ==
    JObj(<<Member("type", JStr("content_block_delta")), Member("index", JNum("0")),
           Member("delta", JObj(<<Member("type", JStr("text_delta")),
                                  Member("text", JStr("Hello"))>>))>>)

ContentBlockDeltaFrame == Message("content_block_delta", RenderValue(ContentBlockDeltaValue))

MessageStopFrame ==
    Message("message_stop", RenderValue(JObj(<<Member("type", JStr("message_stop"))>>)))

\* A content_block_delta cut short, and one whose delta is of a type
\* ContentBlockDelta has no variant for.
TruncatedDeltaFrame ==
    Message("content_block_delta",
        SubSeq(RenderValue(ContentBlockDeltaValue), 1, Len(RenderValue(ContentBlockDeltaValue)) - 2))

UnknownDeltaFrame ==
    Message("content_block_delta",
        RenderValue(JObj(<<Member("type", JStr("content_block_delta")), Member("index", JNum("0")),
            Member("delta", JObj(<<Member("type", JStr("thinking_delta")),
                                   Member("thinking", JStr("Hm"))>>))>>)))

ErrorFrame == Message("error", EnvelopeBytes(AnApiError, "typed"))
MalformedErrorFrame == Message("error", <<Junk>>)

EventFrames == {MessageStartFrame, ContentBlockDeltaFrame, MessageStopFrame}
UnparseableFrames == {TruncatedDeltaFrame, UnknownDeltaFrame}
Frames == {PingFrame, ErrorFrame, MalformedErrorFrame} \cup EventFrames \cup UnparseableFrames

\* The most items the producer reads off one EventSource in the model.
MaxFrames == 4

(***************************************************************************)
(* client.rs: the streaming call                                           *)
(***************************************************************************)

\* The producer with no frame skipped.
skipped_never(message) == FALSE

\* event == "ping": the frame is dropped.
skipped(message) == message.event = "ping"

\* The producer reading error frames as events.
decode_frame_error_as_event(message) ==
    LET output == FromStrMessagesStreamEvent(message.data) IN
    IF output.ok THEN Ok(output.val) ELSE Err(Deserialize)

\* stream: the item made of an event frame that is not a ping.
decode_frame(message) ==
    IF message.event = "error"
    THEN LET error == FromSliceErrorResponse(message.data) IN
         IF error.ok THEN Err(Api(error.val.error)) ELSE Err(Deserialize)
    ELSE LET output == FromStrMessagesStreamEvent(message.data) IN
         IF output.ok THEN Ok(output.val) ELSE Err(Deserialize)

\* The producer going on after a failure item.
cancel_never(response) == FALSE

\* let cancel = response.is_err().
cancel(response) == ~response.ok

\* A channel that hands the newest item out first.
send_in_front(queue, item) == <<item>> \o queue

\* tx.send on the unbounded channel: the item goes behind those waiting.
send(queue, item) == Append(queue, item)

\* tx.send(..).is_err(): the receiver is gone.
send_fails == consumer = "dropped"

\* The producer leaving its loop with the task ended and close() not called.
Finish_without_close(s) == [s EXCEPT !.pc = "finished"]

\* The producer leaves its loop: event_source.close(), and the task and
\* with it the sender end.
Finish(s) == [s EXCEPT !.pc = "finished", !.closes = @ + 1]

\* Client::messages_stream, through Client::post_stream and stream: the
\* request with stream forced on, the EventSource, the spawned producer and
\* the receiving end handed to the caller.  unwrap() in headers panics on a
\* value that is no header value, and expect() on the EventSource panics
\* when the request could not be buildOut, which is when the URL does not parse.
messages_stream(request) ==
    /\ strm.pc = "idle"
    /\ LET h == headers(client) IN
       IF h.panic \/ ~UrlParses(client.api_base)
       THEN /\ strm' = [strm EXCEPT !.pc = "panicked", !.request = request]
            /\ UNCHANGED <<calls, es, consumer>>
       ELSE /\ strm' = [strm EXCEPT !.pc = "running", !.request = request,
                          !.sent = [url |-> client.api_base \o Path, headers |-> h.map,
                                    body |-> json([request EXCEPT !.stream = Some(TRUE)])]]
            /\ es' = "connecting"
            /\ consumer' = "holding"
    /\ UNCHANGED <<calls, kvars, client, cvars, bvars, wireLog, chan, delivered>>

\* Ok(Event::Open) => continue.
OnOpen ==
    /\ strm.pc = "running" /\ es = "connecting" /\ Len(wireLog) < MaxFrames
    /\ es' = "open"
    /\ wireLog' = Append(wireLog, Open)
    /\ UNCHANGED <<calls, kvars, client, cvars, bvars, strm, chan, consumer, delivered>>

\* Ok(Event::Message(message)): a ping is skipped; any other frame becomes
\* an item, and the loop ends when the send fails or the item is a failure.
OnMessage(message) ==
    /\ strm.pc = "running" /\ es = "open" /\ Len(wireLog) < MaxFrames
    /\ wireLog' = Append(wireLog, message)
    /\ IF skipped(message)
       THEN UNCHANGED <<calls, strm, es, chan>>
       ELSE LET response == decode_frame(message) IN
            /\ chan' = IF send_fails THEN chan ELSE send(chan, response)
            /\ IF send_fails \/ cancel(response)
               THEN strm' = Finish(strm) /\ es' = "closed"
               ELSE UNCHANGED <<calls, strm, es>>
    /\ UNCHANGED <<calls, kvars, client, cvars, bvars, consumer, delivered>>

\* Err(Error::StreamEnded) => break.
OnStreamEnded ==
    /\ strm.pc = "running" /\ es = "open"
    /\ wireLog' = Append(wireLog, StreamEnded)
    /\ strm' = Finish(strm)
    /\ es' = "closed"
    /\ UNCHANGED <<calls, kvars, client, cvars, bvars, chan, consumer, delivered>>

\* Err(e), any other error: an InvalidRequest item is sent and the loop goes
\* on unless the send fails.  The EventSource connects again after a
\* transport error and has closed itself after a response it cannot use.
OnError(e) ==
    /\ strm.pc = "running" /\ es \in {"connecting", "open"} /\ Len(wireLog) < MaxFrames
    /\ e = InvalidStatusCode => es = "connecting"
    /\ wireLog' = Append(wireLog, e)
    /\ chan' = IF send_fails THEN chan ELSE send(chan, Err(InvalidRequest("stream error")))
    /\ IF send_fails
       THEN strm' = Finish(strm) /\ es' = "closed"
       ELSE /\ UNCHANGED strm
            /\ es' = IF e = InvalidStatusCode THEN "closed" ELSE "connecting"
    /\ UNCHANGED <<calls, kvars, client, cvars, bvars, consumer, delivered>>

\* event_source.next() is None: the source has closed itself.
OnEnd ==
    /\ strm.pc = "running" /\ es = "closed"
    /\ strm' = Finish(strm)
    /\ UNCHANGED <<calls, kvars, client, cvars, bvars, es, wireLog, chan, consumer, delivered>>

\* The consumer polls the stream and an item is waiting.
Pull ==
    /\ consumer = "holding" /\ chan # <<>>
    /\ delivered' = Append(delivered, Head(chan))
    /\ chan' = Tail(chan)
    /\ UNCHANGED <<calls, kvars, client, cvars, bvars, strm, es, wireLog, consumer>>

\* The consumer polls the stream, nothing is waiting and the sender is
\* gone: the stream ends.
PullEnd ==
    /\ consumer = "holding" /\ chan = <<>> /\ strm.pc = "finished"
    /\ consumer' = "ended"
    /\ UNCHANGED <<calls, kvars, client, cvars, bvars, strm, es, wireLog, chan, delivered>>

\* The consumer drops the stream, and with it what was waiting.
Drop ==
    /\ consumer = "holding"
    /\ consumer' = "dropped"
    /\ chan' = <<>>
    /\ UNCHANGED <<calls, kvars, client, cvars, bvars, strm, es, wireLog, delivered>>

StreamInit ==
    /\ client \in {c \in Clients : c.backoff.max_elapsed_time.some}
    /\ BuilderIdle
    /\ ClassifierIdle
    /\ BufferedIdle
    /\ StreamIdle

StreamNext ==
    \/ \E request \in Requests : messages_stream(request)
    \/ OnOpen
    \/ \E message \in Frames : OnMessage(message)
    \/ OnStreamEnded
    \/ \E e \in {TransportError, InvalidStatusCode} : OnError(e)
    \/ OnEnd
    \/ Pull
    \/ PullEnd
    \/ Drop

SpecStream == StreamInit /\ [][StreamNext]_vars

(***************************************************************************)
(* Properties of the classifier                                            *)
(***************************************************************************)

\* C5: for a non-2xx status and a body that is the error envelope of an
\* ApiError e, in any of its shapes, parse_error returns Api(e): the
\* message, type, param and code of the body, whatever the status.
C5_EnvelopeClassifiedExactly ==
    (cOut # NoOut /\ ~IsSuccess(cStatus)) =>
        \A e \in ApiErrors, shape \in EnvelopeShapes :
            cBytes = EnvelopeBytes(e, shape) => cOut = Api(e)

C5_Witness ==
    /\ cOut # NoOut
    /\ cStatus = 529
    /\ cBytes \in EnvelopeBodies
    /\ cOut.kind = "Api"
    /\ cOut.error.param.some
    /\ ~cOut.error.code.some

\* C6: parse_error returns for every status and body, and what it returns is
\* the API error when the body is the envelope and otherwise the
\* unexpected-response failure with the status it was given and the body as
\* text, each invalid byte sequence replaced by U+FFFD.
C6_ClassifierTotal ==
    cOut # NoOut =>
        \/ cBytes \in EnvelopeBodies /\ cOut.kind = "Api"
        \/ /\ cBytes \in NonEnvelopeBodies
           /\ cOut.kind = "UnexpectedResponse"
           /\ cOut.status = cStatus
           /\ Len(cOut.body) = Len(cBytes)
           /\ \A i \in 1..Len(cBytes) :
                cOut.body[i] = IF cBytes[i] = BadByte THEN ReplacementChar ELSE cBytes[i]

C6_Witness ==
    /\ cOut # NoOut
    /\ cOut.kind = "UnexpectedResponse"
    /\ IsSuccess(cStatus)
    /\ \E i \in 1..Len(cBytes) : cBytes[i] = BadByte
    /\ \E i \in 1..Len(cBytes) : cBytes[i] = LBrace

(***************************************************************************)
(* Properties of the buffered call                                         *)
(***************************************************************************)

\* C1: a request whose stream field is Some(true) makes Client::messages
\* return InvalidRequest at once, with no HTTP request sent.
C1_StreamFlagRejected ==
    (call.pc # "idle" /\ call.request.stream = Some(TRUE)) =>
        /\ call.pc = "returned"
        /\ ~call.result.ok
        /\ call.result.err.kind = "InvalidRequest"
        /\ netCalls = 0

C1_Witness ==
    /\ call.pc = "returned"
    /\ call.request.stream = Some(TRUE)
    /\ netCalls = 0

\* The backoff has no further delay to give: the elapsed time is past
\* max_elapsed_time, or is taken past it by a delay the jitter can draw.
BudgetSpent ==
    /\ client.backoff.max_elapsed_time.some
    /\ \E interval \in RandomizedIntervals(client.backoff, call.backoff.current_interval) :
         call.backoff.elapsed + interval > client.backoff.max_elapsed_time.v

LastStatus == call.statuses[Len(call.statuses)]

\* C2: a 429 response is followed by a delay and another attempt as long as
\* the backoff gives a delay; the call returns on a 429 response only when
\* the budget is spent, and then with the error of that last response (for
\* an envelope body, the ApiError it carries).
C2_RetriesRateLimited ==
    /\ (call.pc = "returned" /\ call.last.kind = "response"
        /\ call.last.status = TOO_MANY_REQUESTS) =>
           /\ BudgetSpent
           /\ ~call.result.ok
           /\ \A e \in ApiErrors, shape \in EnvelopeShapes :
                call.last.bytes = EnvelopeBytes(e, shape) => call.result.err = Api(e)
    /\ call.pc = "sleeping" =>
           /\ call.last.kind = "response"
           /\ call.last.status = TOO_MANY_REQUESTS
           /\ \E cur \in client.backoff.initial_interval..client.backoff.max_interval :
                call.sleep \in RandomizedIntervals(client.backoff, cur)
           /\ netCalls = Len(call.statuses)

C2_Witness ==
    /\ call.pc = "returned"
    /\ Len(call.statuses) >= 2
    /\ call.last.kind = "response"
    /\ call.last.status = TOO_MANY_REQUESTS
    /\ call.last.bytes \in EnvelopeBodies
    /\ call.result = Err(Api(ARateLimitError))

\* C3: a response with a failure status other than 429 is the last attempt
\* of its call: the call has returned the classification of that response
\* and the transport was asked for no request after it.
C3_OtherStatusTerminal ==
    \A i \in 1..Len(call.statuses) :
        (~IsSuccess(call.statuses[i]) /\ call.statuses[i] # TOO_MANY_REQUESTS) =>
            /\ i = Len(call.statuses)
            /\ call.pc = "returned"
            /\ netCalls = i
            /\ ~call.result.ok
            /\ call.last.kind = "response" =>
                 /\ call.last.bytes \in EnvelopeBodies => call.result.err.kind = "Api"
                 /\ call.last.bytes \notin EnvelopeBodies =>
                      /\ call.result.err.kind = "UnexpectedResponse"
                      /\ call.result.err.status = call.statuses[i]

C3_Witness ==
    /\ call.pc = "returned"
    /\ Len(call.statuses) = 3
    /\ LastStatus = 500
    /\ call.last.kind = "response"
    /\ call.result.err.kind = "UnexpectedResponse"

\* The bodies of the model that decode into a MessagesResponse.
DecodableBodies == {RenderValue(AMessagesResponse)}

\* C4: a 2xx response is the last attempt of its call, and when its body
\* does not decode into a MessagesResponse the call has returned
\* Deserialize; no attempt follows it, also after 429 retries.
C4_DecodeFailureTerminal ==
    \A i \in 1..Len(call.statuses) :
        IsSuccess(call.statuses[i]) =>
            /\ i = Len(call.statuses)
            /\ call.pc = "returned"
            /\ netCalls = i
            /\ (call.last.kind = "response" /\ call.last.bytes \notin DecodableBodies) =>
                 call.result = Err(Deserialize)
            /\ (call.last.kind = "response" /\ call.last.bytes \in DecodableBodies) =>
                 call.result.ok

C4_Witness ==
    /\ call.pc = "returned"
    /\ Len(call.statuses) >= 2
    /\ IsSuccess(LastStatus)
    /\ call.last.kind = "response"
    /\ call.result = Err(Deserialize)

(***************************************************************************)
(* Properties of the streaming call                                        *)
(***************************************************************************)

\* The events the event frames of the model stand for.
MessageStartEvent ==
    [type |-> "message_start", message |-> [role |-> "assistant", content |-> <<>>]]
ContentBlockDeltaEvent ==
    [type |-> "content_block_delta", index |-> "0",
     delta |-> [type |-> "text_delta", text |-> "Hello"]]
MessageStopEvent == [type |-> "message_stop"]

EventOf(frame) ==
    CASE frame = MessageStartFrame -> MessageStartEvent
      [] frame = ContentBlockDeltaFrame -> ContentBlockDeltaEvent
      [] frame = MessageStopFrame -> MessageStopEvent

\* The items the consumer is owed for one thing the EventSource yielded.
ItemsOf(yielded) ==
    CASE yielded \in EventFrames -> <<Ok(EventOf(yielded))>>
      [] yielded \in UnparseableFrames -> <<Err(Deserialize)>>
      [] yielded = ErrorFrame -> <<Err(Api(AnApiError))>>
      [] yielded = MalformedErrorFrame -> <<Err(Deserialize)>>
      [] yielded \in {TransportError, InvalidStatusCode} ->
           <<Err(InvalidRequest("stream error"))>>
      [] OTHER -> <<>>

RECURSIVE ItemsOfAll(_)
ItemsOfAll(log) ==
    IF log = <<>> THEN <<>> ELSE ItemsOf(Head(log)) \o ItemsOfAll(Tail(log))

IsPrefix(a, b) == Len(a) <= Len(b) /\ SubSeq(b, 1, Len(a)) = a

\* Everything sent to the consumer so far, pulled or waiting.
Sent == delivered \o chan

Quiet(yielded) == yielded \in {Open, PingFrame, StreamEnded} \cup EventFrames

\* C7: as long as the EventSource has yielded only open, ping and
\* well-formed event frames and the end of the stream, the consumer has been
\* sent exactly the events of the event frames, one each and no failure,
\* and once the stream has ended for the consumer it has pulled them all.
C7_OpenAndPingSilent ==
    (consumer \in {"holding", "ended"} /\ \A i \in 1..Len(wireLog) : Quiet(wireLog[i])) =>
        LET events == SelectSeq(wireLog, LAMBDA y : y \in EventFrames) IN
        /\ Len(Sent) = Len(events)
        /\ \A i \in 1..Len(events) : Sent[i] = Ok(EventOf(events[i]))
        /\ consumer = "ended" => chan = <<>>

C7_Witness ==
    /\ consumer = "ended"
    /\ wireLog = <<Open, PingFrame, MessageStartFrame, StreamEnded>>
    /\ delivered = <<Ok(MessageStartEvent)>>

\* C8: an event frame whose payload does not parse is the last thing the
\* producer reads: the producer has finished, and a consumer still there has
\* been sent one Deserialize failure for it, as the last item.
C8_UnparseableFrameEndsStream ==
    \A i \in 1..Len(wireLog) :
        wireLog[i] \in UnparseableFrames =>
            /\ i = Len(wireLog)
            /\ strm.pc = "finished"
            /\ consumer \in {"holding", "ended"} =>
                 /\ Len(Sent) = Len(ItemsOfAll(SubSeq(wireLog, 1, i - 1))) + 1
                 /\ Sent[Len(Sent)] = Err(Deserialize)

C8_Witness ==
    /\ consumer = "ended"
    /\ wireLog = <<Open, ContentBlockDeltaFrame, UnknownDeltaFrame>>
    /\ delivered = <<Ok(ContentBlockDeltaEvent), Err(Deserialize)>>

\* C9: an error frame is the last thing the producer reads: the producer
\* has finished, and a consumer still there has been sent, as the last
\* item, the API error of the envelope or Deserialize when the payload is
\* no envelope.
C9_ErrorFrameEndsStream ==
    \A i \in 1..Len(wireLog) :
        (wireLog[i].kind = "message" /\ wireLog[i].event = "error") =>
            /\ i = Len(wireLog)
            /\ strm.pc = "finished"
            /\ consumer \in {"holding", "ended"} =>
                 /\ Len(Sent) = Len(ItemsOfAll(SubSeq(wireLog, 1, i - 1))) + 1
                 /\ Sent[Len(Sent)] =
                      IF \E e \in ApiErrors, shape \in EnvelopeShapes :
                            wireLog[i].data = EnvelopeBytes(e, shape)
                      THEN Err(Api(CHOOSE e \in ApiErrors : \E shape \in EnvelopeShapes :
                                      wireLog[i].data = EnvelopeBytes(e, shape)))
                      ELSE Err(Deserialize)

C9_Witness ==
    /\ consumer = "ended"
    /\ wireLog = <<Open, MessageStartFrame, ErrorFrame>>
    /\ delivered = <<Ok(MessageStartEvent), Err(Api(AnApiError))>>

C9_WitnessMalformed ==
    /\ consumer = "ended"
    /\ wireLog = <<Open, MalformedErrorFrame>>
    /\ delivered = <<Err(Deserialize)>>

\* C10: what the consumer has pulled is, item for item and in order, what
\* the things the EventSource yielded produce, up to the point the consumer
\* has reached; with the consumer still there, pulled and waiting items
\* together are exactly that sequence.
C10_DeliveryInWireOrder ==
    /\ IsPrefix(delivered, ItemsOfAll(wireLog))
    /\ consumer \in {"holding", "ended"} => Sent = ItemsOfAll(wireLog)

C10_Witness ==
    /\ consumer = "holding"
    /\ wireLog = <<Open, MessageStartFrame, ContentBlockDeltaFrame, MessageStopFrame>>
    /\ delivered = <<Ok(MessageStartEvent)>>
    /\ chan = <<Ok(ContentBlockDeltaEvent), Ok(MessageStopEvent)>>

\* C11: the items the consumer has pulled hold at most one failure, and a
\* failure is the last of them: nothing is pulled after a failure item.
C11_AtMostOneFailureLast ==
    \A i \in 1..Len(delivered) : ~delivered[i].ok => i = Len(delivered)

\* C12: once the consumer has dropped the stream, the first frame the
\* producer reads off the EventSource, of whatever kind, ends the producer:
\* it leaves its loop and closes the EventSource.
C12_DropClosesWithinOneFrame ==
    [][(/\ consumer = "dropped"
        /\ wireLog' # wireLog
        /\ wireLog'[Len(wireLog')].kind = "message") => strm'.pc = "finished"]_vars

\* C13: no call of the client ends in a panic: a buffered call and a
\* streaming call that have been made have returned a value or are on
\* their way to one.
C13_NoPanic == call.pc # "panicked" /\ strm.pc # "panicked"

\* C14: once messages_stream has been called, with whatever stream field in
\* the request, the body handed to the EventSource has stream set to true
\* and the caller holds the event stream.
C14_StreamFlagForcedOn ==
    strm.pc # "idle" =>
        /\ strm.sent # NoRequest
        /\ strm.sent.body.stream = Some(TRUE)
        /\ consumer # "none"

\* C15 as stated: a transport failure of an attempt is retried according to
\* the backoff, so the call returns on one only once the backoff has no
\* further delay to give.
C15_TransportFailureRetried ==
    (call.pc = "returned" /\ call.last.kind \in {"send_error", "body_error"}) => BudgetSpent

\* C15, amended: a transport failure of an attempt, in sending the request
\* or in reading the body, is the last attempt of its call: the call has
\* returned Http, with no delay and no attempt after it.
C15_TransportFailureTerminal ==
    call.last.kind \in {"send_error", "body_error"} =>
        /\ call.pc = "returned"
        /\ call.result = Err(Http)
        /\ call.sleep = 0
        /\ netCalls = Len(call.statuses) + (IF call.last.kind = "send_error" THEN 1 ELSE 0)

C15_Witness ==
    /\ call.pc = "returned"
    /\ call.last.kind = "send_error"
    /\ call.statuses = <<TOO_MANY_REQUESTS>>
    /\ netCalls = 2
    /\ client.backoff.max_elapsed_time.some
    /\ call.backoff.elapsed < client.backoff.max_elapsed_time.v

\* C16: a buffered call that has sent its request returns, whatever the
\* backoff policy of the client and whatever the server answers.
C16_BufferedCallReturns == (call.pc = "sending") ~> (call.pc = "returned")

\* C17: at most one item that the producer has sent is waiting for the
\* consumer to pull it; stated for the connections that yield no error,
\* where every item waiting comes from a frame.
C17_AtMostOneItemWaiting ==
    (\A i \in 1..Len(wireLog) : wireLog[i].kind # "error") => Len(chan) <= 1

\* A failure item has been sent to the consumer.
FailureSurfaced == \E i \in 1..Len(Sent) : ~Sent[i].ok

\* C18: a buffered call that has returned sends no further HTTP request,
\* and a streaming call that has sent a failure item to its consumer reads
\* nothing further off the EventSource, neither a frame nor the opening of
\* another connection.
C18_NoIOAfterTerminalFailure ==
    [][/\ call.pc = "returned" => netCalls' = netCalls
       /\ FailureSurfaced => wireLog' = wireLog]_vars

\* C19: InvalidRequest comes of the validation before the call alone: a
\* buffered call returns it only with no HTTP request sent, and no item
\* sent to the consumer of a streaming call is an InvalidRequest.
C19_InvalidRequestOnlyPreflight ==
    /\ (call.pc = "returned" /\ ~call.result.ok /\ call.result.err.kind = "InvalidRequest") =>
           netCalls = 0
    /\ \A i \in 1..Len(Sent) : ~Sent[i].ok => Sent[i].err.kind # "InvalidRequest"

\* C20: every attempt of a buffered call sends the request built before the
\* first one: the same URL, headers and body, the body being the
\* serialization of the request as normalised at the start of the call.
\* No step of the call changes the request or the client; what changes
\* between attempts is the backoff state and what is known of the outcome.
C20_SameRequestEveryAttempt ==
    [][/\ call'.issued # <<>> =>
            /\ Len(call'.issued) = netCalls'
            /\ \A i \in 1..Len(call'.issued) : call'.issued[i] = call'.issued[1]
            /\ call'.issued[1] = call'.sent
            /\ call'.sent.url = client.api_base \o Path
            /\ call'.sent.body = json([call'.request EXCEPT !.stream = None])
       /\ call.pc # "idle" =>
            /\ call'.request = call.request
            /\ call'.sent = call.sent
            /\ call'.mode = call.mode
            /\ client' = client]_vars

C20_Witness ==
    /\ call.pc = "sending"
    /\ netCalls = 3
    /\ Len(call.issued) = 3
    /\ call.statuses = <<TOO_MANY_REQUESTS, TOO_MANY_REQUESTS>>
    /\ call.request.stream = Some(FALSE)

\* C22: what build returns is a failure when the credential is missing or
\* empty, and a Client it returns has a credential that is not empty.
C22_CredentialNonEmpty ==
    buildOut # NoResult =>
        /\ (~builder.api_key.some \/ builder.api_key.v = EmptyKey) => ~buildOut.ok
        /\ buildOut.ok => buildOut.val.api_key # EmptyKey

\* C23: a producer that has left its loop has called close() on the
\* EventSource once, one that is still in it has not, and after close()
\* nothing more is read off the EventSource and the producer does not run
\* again.
C23_ClosedExactlyOnce ==
    [][/\ strm'.closes = (IF strm'.pc = "finished" THEN 1 ELSE 0)
       /\ strm'.pc = "finished" => es' = "closed"
       /\ strm.closes > 0 => (wireLog' = wireLog /\ strm' = strm /\ es' = es)]_vars

C23_Witness ==
    /\ strm.pc = "finished"
    /\ strm.closes = 1
    /\ consumer = "dropped"
    /\ wireLog = <<Open, MessageStartFrame, PingFrame, ContentBlockDeltaFrame>>

\* C24: whether a buffered call retries hangs on the status alone. A delay
\* is taken only after a 429 response and is one the backoff draws, whatever
\* Retry-After the response carries; a call returns on a 429 response,
\* whatever its body, only with the budget spent, and then with what
\* parse_error makes of that response: the ApiError of an envelope body,
\* otherwise UnexpectedResponse with status 429 and the body as text.
C24_RetryOnStatusAlone ==
    /\ call.pc = "sleeping" =>
           /\ call.last.kind = "response"
           /\ call.last.status = TOO_MANY_REQUESTS
           /\ \E cur \in client.backoff.initial_interval..client.backoff.max_interval :
                call.sleep \in RandomizedIntervals(client.backoff, cur)
    /\ (call.pc \in {"sleeping", "returned"} /\ call.last.kind = "response"
        /\ call.last.status = TOO_MANY_REQUESTS) =>
           /\ call.pc = "returned" => BudgetSpent
           /\ ~call.result.ok
           /\ call.result.err.kind \in {"Api", "UnexpectedResponse"}
           /\ \A e \in ApiErrors, shape \in EnvelopeShapes :
                call.last.bytes = EnvelopeBytes(e, shape) => call.result.err = Api(e)
           /\ call.last.bytes \notin EnvelopeBodies =>
                /\ call.result.err.kind = "UnexpectedResponse"
                /\ call.result.err.status = TOO_MANY_REQUESTS
                /\ Len(call.result.err.body) = Len(call.last.bytes)
                /\ \A i \in 1..Len(call.last.bytes) :
                     call.result.err.body[i] =
                         IF call.last.bytes[i] = BadByte THEN ReplacementChar
                         ELSE call.last.bytes[i]

C24_Witness ==
    /\ call.pc = "returned"
    /\ call.statuses = <<TOO_MANY_REQUESTS, TOO_MANY_REQUESTS>>
    /\ call.last.kind = "response"
    /\ call.last.retry_after.some
    /\ call.last.bytes = <<Junk, BadByte>>
    /\ call.result.err.kind = "UnexpectedResponse"

\* The current interval of a policy after k delays: the initial interval
\* multiplied k times, never past max_interval.
RECURSIVE IntervalAfter(_, _)
IntervalAfter(policy, k) ==
    IF k = 0 THEN policy.initial_interval
    ELSE Min(IntervalAfter(policy, k - 1) * policy.multiplier, policy.max_interval)

\* The delays a call has taken: one after each attempt but the one it is
\* making or has returned from.
DelaysTaken(c) == IF c.pc = "sleeping" THEN c.attempts ELSE c.attempts - 1

\* C21: the backoff state belongs to its call. A call that starts has the
\* initial interval of the client's policy and no time elapsed; a step of
\* one call leaves the client, with its policy, and every other call, with
\* its backoff state and result, as they were; the backoff state of a call
\* is what its own attempts and delays make it; and a call gives up on a
\* rate limit error, or takes a further delay, as its own elapsed time has
\* it.
C21_BackoffStateCallScoped ==
    [][/\ client' = client
       /\ \A i \in CallIds :
            /\ (calls[i].pc \in {"idle", "returned"} /\ calls'[i].pc = "sending") =>
                   calls'[i].backoff = [current_interval |-> client.backoff.initial_interval,
                                        elapsed |-> 0]
            /\ (\E j \in CallIds \ {i} : calls'[j] # calls[j]) => calls'[i] = calls[i]
            /\ calls'[i].attempts > 0 =>
                   /\ calls'[i].backoff.current_interval =
                          IntervalAfter(client.backoff, DelaysTaken(calls'[i]))
                   /\ calls'[i].backoff.elapsed = calls'[i].waited
            /\ (calls[i].pc = "sending" /\ calls'[i].pc = "sleeping") =>
                   (client.backoff.max_elapsed_time.some =>
                        calls'[i].waited + calls'[i].sleep <= client.backoff.max_elapsed_time.v)
            /\ (calls[i].pc = "sending" /\ calls'[i].pc = "returned"
                /\ calls'[i].result = Err(Api(ARateLimitError))) =>
                   /\ client.backoff.max_elapsed_time.some
                   /\ \E interval \in RandomizedIntervals(client.backoff,
                                        IntervalAfter(client.backoff, calls[i].attempts - 1)) :
                        calls'[i].waited + interval > client.backoff.max_elapsed_time.v]_vars

\* One call in its second delay while the other, started on the same
\* client, makes its first attempt.
C21_Witness ==
    /\ calls[1].pc = "sleeping"
    /\ calls[1].attempts = 2
    /\ calls[1].backoff.current_interval = client.backoff.max_interval
    /\ calls[1].backoff.elapsed >= 2
    /\ calls[2].pc = "sending"
    /\ calls[2].attempts = 1
    /\ calls[2].backoff = [current_interval |-> client.backoff.initial_interval, elapsed |-> 0]

====
